---------------------------- MODULE Spec2Model ----------------------------
(***************************************************************************)
(* Sketchpad (src/main.js): fingertip paths drawn in the air are turned    *)
(* into compound Matter bodies.  The model covers the gesture state        *)
(* machine (processHand), the resampling and body synthesis (finishStroke),*)
(* the frame loop (loop), the UI handlers (setupUI) and the physics runner.*)
(*                                                                         *)
(* Arithmetic.  Canvas coordinates are kept in 25ths of a pixel            *)
(* (UnitsPerPx), so that spacing = strokeSize * 0.4 and its 3-4-5          *)
(* components are whole numbers for every stroke size.  Landmark           *)
(* coordinates are kept in thousandths of the normalised [0,1] range.      *)
(* The input frames put every extended fingertip on one horizontal line   *)
(* of the canvas, and the stand-alone resampling runs take paths along     *)
(* one line or along 3-4-5 directions, where all distances and             *)
(* interpolated points are whole numbers of units.                         *)
(***************************************************************************)
EXTENDS Integers, Sequences, FiniteSets, TLC

VARIABLES
    strokes,         \* main.js:7   registry of { body, color, thickness }
    activePaths,     \* main.js:8   fingerName -> path, in insertion order
    worldBodies,     \* main.js:51  ids of the bodies in engine.world
    worldGravityY,   \* main.js:52  engine.world.gravity.y
    lastVideoTime,   \* main.js:12
    readyState,      \* videoElement.readyState
    strokeSize,      \* main.js:16
    sizeStr,         \* strokePreview.dataset.size
    strokeColor,     \* main.js:17
    gravityEnabled,  \* main.js:18
    wiggleEnabled,   \* main.js:19
    rafPending,      \* animation callbacks requested and not yet run
    resampleIn,      \* input of a stand-alone finishStroke resampling run
    resampleOut      \* its result

vars == <<strokes, activePaths, worldBodies, worldGravityY, lastVideoTime,
          readyState, strokeSize, sizeStr, strokeColor, gravityEnabled,
          wiggleEnabled, rafPending, resampleIn, resampleOut>>

---------------------------------------------------------------------------
(* Bounds of the model *)

\* longest in-progress path the input frames may build
MaxPath == 2

\* most ink on the canvas at once: an active path counts its points, a
\* stroke counts two (the fewest points a stroke is made from)
MaxInk == 4

\* longest raw path handed to the stand-alone resampling run
MaxRawLen == 3

---------------------------------------------------------------------------
(* Units and environment *)

\* canvas units per pixel: 0.4 = 10/25
UnitsPerPx == 25

\* window.innerWidth and window.innerHeight, in pixels
width == 1000

height == 500

\* the four walls added by updateWalls()
Walls == {1, 2, 3, 4}

\* the colours the picker is moved between
Colors == {"#CC5DE8", "#FFFFFF"}

\* the values videoElement.currentTime is read as; the loop only compares it
\* with lastVideoTime, so the clock is kept modulo two
VideoTimes == {0, 1}

Point(px, py) == [x |-> px, y |-> py]

Last(s) == s[Len(s)]

---------------------------------------------------------------------------
(* Math util *)

RECURSIVE SqrtIter(_, _)
SqrtIter(n, r) ==
    LET r2 == (r + (n \div r)) \div 2
    IN  IF r2 >= r THEN r ELSE SqrtIter(n, r2)

\* Math.sqrt, rounded down to a whole number of canvas units; the points the
\* model draws are placed so that every distance the program takes between
\* them is a whole number of units
Sqrt(n) == IF n = 0 THEN 0 ELSE SqrtIter(n, n)

DistSq(p1, p2) == (p1.x - p2.x) * (p1.x - p2.x) + (p1.y - p2.y) * (p1.y - p2.y)

distance(p1, p2) == Sqrt(DistSq(p1, p2))

---------------------------------------------------------------------------
(* finishStroke: resampling *)

\* spacing = strokeSize * 0.4, in canvas units
Spacing(size) == (size * UnitsPerPx * 4) \div 10

\* radius of a circle part: strokeSize / 2, in canvas units
Radius(size) == (size * UnitsPerPx) \div 2

\* the point at parameter t = spacing / dist on the segment p1 -> p2
Interpolate(p1, p2, spacing, dist) ==
    Point(p1.x + ((p2.x - p1.x) * spacing) \div dist,
          p1.y + ((p2.y - p1.y) * spacing) \div dist)

\* the while loop with "dist > spacing": a remainder of exactly one spacing
\* is not emitted
RECURSIVE ResampleWhileStrict(_, _, _, _)
ResampleWhileStrict(resampled, p1, p2, spacing) ==
    LET dist == distance(p1, p2)
    IN  IF dist > spacing
        THEN LET np == Interpolate(p1, p2, spacing, dist)
             IN  ResampleWhileStrict(Append(resampled, np), np, p2, spacing)
        ELSE resampled

\* the while loop of finishStroke: emit points towards p2 while the
\* remaining distance is at least one spacing
RECURSIVE ResampleWhile(_, _, _, _)
ResampleWhile(resampled, p1, p2, spacing) ==
    LET dist == distance(p1, p2)
    IN  IF dist >= spacing
        THEN LET np == Interpolate(p1, p2, spacing, dist)
             IN  ResampleWhile(Append(resampled, np), np, p2, spacing)
        ELSE resampled

\* the for loop measuring each segment from the previous raw point instead
\* of the last resampled point
RECURSIVE ResampleForFromRaw(_, _, _, _)
ResampleForFromRaw(path, i, resampled, spacing) ==
    IF i > Len(path)
    THEN resampled
    ELSE ResampleForFromRaw(path, i + 1,
                            ResampleWhile(resampled, path[i - 1], path[i], spacing),
                            spacing)

\* the for loop of finishStroke over path[1..] (path[2..] here)
RECURSIVE ResampleFor(_, _, _, _)
ResampleFor(path, i, resampled, spacing) ==
    IF i > Len(path)
    THEN resampled
    ELSE ResampleFor(path, i + 1,
                     ResampleWhile(resampled, Last(resampled), path[i], spacing),
                     spacing)

Resample(path, size) == ResampleFor(path, 2, <<path[1]>>, Spacing(size))

---------------------------------------------------------------------------
(* finishStroke: body synthesis *)

RECURSIVE SumX(_)
SumX(ps) == IF ps = <<>> THEN 0 ELSE ps[1].x + SumX(Tail(ps))

RECURSIVE SumY(_)
SumY(ps) == IF ps = <<>> THEN 0 ELSE ps[1].y + SumY(Tail(ps))

\* Bodies.circle(p.x, p.y, strokeSize / 2)
BodiesCircle(p, size) == [x |-> p.x, y |-> p.y, circleRadius |-> Radius(size)]

\* the map starting one point late: no circle for the first resampled point
CirclePartsSkipFirst(resampled, size) ==
    [i \in 1..(Len(resampled) - 1) |-> BodiesCircle(resampled[i + 1], size)]

\* resampled.map(p => Bodies.circle(...))
CircleParts(resampled, size) ==
    [i \in 1..Len(resampled) |-> BodiesCircle(resampled[i], size)]

\* parts[0] of a compound body: the body itself (the hull), at the centre
\* of its parts
HullPart(parts) ==
    [x |-> SumX(parts) \div Len(parts), y |-> SumY(parts) \div Len(parts),
     circleRadius |-> 0]

\* Body.create({ parts, isStatic: !gravityEnabled, ... }): a new body,
\* awake and at rest
BodyCreate(id, parts, isStatic) ==
    [id |-> id,
     parts |-> <<HullPart(parts)>> \o parts,
     isStatic |-> isStatic,
     isSleeping |-> FALSE,
     velocity |-> Point(0, 0),
     angularVelocity |-> 0]

\* a new body is a new object: an identity no body of the world or of the
\* registry has
NewBodyId(ctx) ==
    LET used == ctx.world \cup {ctx.strokes[i].body.id : i \in 1..Len(ctx.strokes)}
    IN  CHOOSE n \in 1..(Cardinality(used) + 1) :
            n \notin used /\ \A m \in 1..(n - 1) : m \in used

\* finishStroke with its length test off by one: only an empty path returns
finishStrokeLengthOne(path, ctx, rejects) ==
    IF Len(path) < 1
    THEN ctx
    ELSE IF rejects
    THEN [ctx EXCEPT !.thrown = TRUE]
    ELSE LET body == BodyCreate(NewBodyId(ctx),
                                CircleParts(Resample(path, strokeSize), strokeSize),
                                ~gravityEnabled)
         IN  [ctx EXCEPT
                !.world = @ \cup {body.id},
                !.strokes = Append(@, [body |-> body,
                                       color |-> strokeColor,
                                       thickness |-> strokeSize])]

\* finishStroke with its length test off by one the other way: a path of
\* exactly 2 points returns without a stroke
finishStrokeLengthThree(path, ctx, rejects) ==
    IF Len(path) < 3
    THEN ctx
    ELSE IF rejects
    THEN [ctx EXCEPT !.thrown = TRUE]
    ELSE LET body == BodyCreate(NewBodyId(ctx),
                                CircleParts(Resample(path, strokeSize), strokeSize),
                                ~gravityEnabled)
         IN  [ctx EXCEPT
                !.world = @ \cup {body.id},
                !.strokes = Append(@, [body |-> body,
                                       color |-> strokeColor,
                                       thickness |-> strokeSize])]

\* finishStroke creating every body static, whatever the gravity toggle says
finishStrokeAlwaysStatic(path, ctx, rejects) ==
    IF Len(path) < 2
    THEN ctx
    ELSE IF rejects
    THEN [ctx EXCEPT !.thrown = TRUE]
    ELSE LET body == BodyCreate(NewBodyId(ctx),
                                CircleParts(Resample(path, strokeSize), strokeSize),
                                TRUE)
         IN  [ctx EXCEPT
                !.world = @ \cup {body.id},
                !.strokes = Append(@, [body |-> body,
                                       color |-> strokeColor,
                                       thickness |-> strokeSize])]

\* finishStroke(path) on the context ctx = the registry, the world and the
\* active paths; rejects: Body.create throws, and the exception leaves
\* finishStroke before World.add
finishStroke(path, ctx, rejects) ==
    IF Len(path) < 2
    THEN ctx
    ELSE IF rejects
    THEN [ctx EXCEPT !.thrown = TRUE]
    ELSE LET resampled == Resample(path, strokeSize)
             parts == CircleParts(resampled, strokeSize)
             body == BodyCreate(NewBodyId(ctx), parts, ~gravityEnabled)
         IN  [ctx EXCEPT
                !.world = @ \cup {body.id},
                !.strokes = Append(@, [body |-> body,
                                       color |-> strokeColor,
                                       thickness |-> strokeSize])]

---------------------------------------------------------------------------
(* processHand *)

Fingers == <<"index", "middle", "ring", "pinky">>

FingerNames == {Fingers[i] : i \in 1..Len(Fingers)}

\* hand[...] indices of the tip and the mcp joint of each finger
TipIdx(name) ==
    CASE name = "index" -> 8 [] name = "middle" -> 12
      [] name = "ring" -> 16 [] name = "pinky" -> 20

McpIdx(name) ==
    CASE name = "index" -> 5 [] name = "middle" -> 9
      [] name = "ring" -> 13 [] name = "pinky" -> 17

\* distance(tip, wrist) > distance(mcp, wrist) * 1.5, compared on the
\* squares (both sides are non-negative): 4 * d(tip)^2 > 9 * d(mcp)^2
isExtended(tip, mcp, wrist) ==
    4 * DistSq(tip, wrist) > 9 * DistSq(mcp, wrist)

\* x = (1 - tip.x) * width, y = tip.y * height, in canvas units
CanvasPoint(tip) ==
    Point(((1000 - tip.x) * width * UnitsPerPx) \div 1000,
          (tip.y * height * UnitsPerPx) \div 1000)

\* activePaths[name] is set
HasPath(ap, name) == \E i \in 1..Len(ap) : ap[i].name = name

PathIndex(ap, name) == CHOOSE i \in 1..Len(ap) : ap[i].name = name

\* activePaths[name]
PathOf(ap, name) == ap[PathIndex(ap, name)].path

\* delete activePaths[name]
DeletePath(ap, name) == SelectSeq(ap, LAMBDA e : e.name # name)

\* the threshold test with ">=": a point exactly 2 px away is taken
MovedEnoughAtLeast(last, point) == distance(last, point) >= 2 * UnitsPerPx

\* distance(last, point) > 2
MovedEnough(last, point) == distance(last, point) > 2 * UnitsPerPx

\* the body of fingers.forEach with a retracted finger's path finished but
\* never deleted
ProcessFingerKeepsPath(name, hand, ctx, rejects) ==
    LET tip == hand[TipIdx(name)]
        ap == ctx.activePaths
    IN  IF ctx.thrown
        THEN ctx
        ELSE IF isExtended(tip, hand[McpIdx(name)], hand[0])
        THEN IF ~HasPath(ap, name)
             THEN [ctx EXCEPT !.activePaths =
                      Append(ap, [name |-> name, path |-> <<CanvasPoint(tip)>>])]
             ELSE IF MovedEnough(Last(PathOf(ap, name)), CanvasPoint(tip))
             THEN [ctx EXCEPT !.activePaths[PathIndex(ap, name)].path =
                      Append(@, CanvasPoint(tip))]
             ELSE ctx
        ELSE IF HasPath(ap, name)
        THEN finishStroke(PathOf(ap, name), ctx, rejects)
        ELSE ctx

\* the body of fingers.forEach for one finger
ProcessFinger(name, hand, ctx, rejects) ==
    LET tip == hand[TipIdx(name)]
        mcp == hand[McpIdx(name)]
        wrist == hand[0]
        ap == ctx.activePaths
    IN  IF ctx.thrown
        THEN ctx
        ELSE IF isExtended(tip, mcp, wrist)
        THEN LET point == CanvasPoint(tip)
             IN  IF ~HasPath(ap, name)
                 THEN [ctx EXCEPT !.activePaths =
                          Append(ap, [name |-> name, path |-> <<point>>])]
                 ELSE LET i == PathIndex(ap, name)
                          currentPath == ap[i].path
                      IN  IF MovedEnough(Last(currentPath), point)
                          THEN [ctx EXCEPT !.activePaths[i].path =
                                   Append(currentPath, point)]
                          ELSE ctx
        ELSE IF HasPath(ap, name)
        THEN LET done == finishStroke(PathOf(ap, name), ctx, rejects)
             IN  IF done.thrown
                 THEN done
                 ELSE [done EXCEPT !.activePaths = DeletePath(ap, name)]
        ELSE ctx

RECURSIVE ProcessFingers(_, _, _, _)
ProcessFingers(i, hand, ctx, rejects) ==
    IF i > Len(Fingers)
    THEN ctx
    ELSE ProcessFingers(i + 1, hand,
                        ProcessFinger(Fingers[i], hand, ctx, rejects), rejects)

\* "finish all" that stops after the first key
FinishAllFirstOnly(keys, ctx, rejects) ==
    IF keys = <<>> \/ ctx.thrown
    THEN ctx
    ELSE LET done == finishStroke(PathOf(ctx.activePaths, keys[1]), ctx, rejects)
         IN  IF done.thrown
             THEN done
             ELSE [done EXCEPT !.activePaths = DeletePath(@, keys[1])]

\* "Hand lost, finish all": Object.keys(activePaths).forEach over the keys
\* as they were when the loop began
RECURSIVE FinishAll(_, _, _)
FinishAll(keys, ctx, rejects) ==
    IF keys = <<>> \/ ctx.thrown
    THEN ctx
    ELSE LET name == keys[1]
             done == finishStroke(PathOf(ctx.activePaths, name), ctx, rejects)
         IN  IF done.thrown
             THEN done
             ELSE FinishAll(Tail(keys),
                            [done EXCEPT !.activePaths = DeletePath(@, name)],
                            rejects)

Keys(ap) == [i \in 1..Len(ap) |-> ap[i].name]

processHand(results, ctx, rejects) ==
    IF Len(results.landmarks) > 0
    THEN ProcessFingers(1, results.landmarks[1], ctx, rejects)
    ELSE FinishAll(Keys(ctx.activePaths), ctx, rejects)

---------------------------------------------------------------------------
(* Detector results the frames are drawn from *)

\* landmark indices processHand reads
LandmarkIdx == {0, 5, 8, 9, 12, 13, 16, 17, 20}

\* normalised landmarks, in thousandths.  The mcp joints are 0.4 from the
\* wrist, so a tip is extended when it is more than 0.6 from the wrist.
Wrist == Point(500, 1000)

McpPoint == Point(500, 600)

\* a folded fingertip, exactly 1.5 times as far from the wrist as its mcp
FoldedTip == Point(500, 400)

\* extended fingertips: canvas x = 0 px and 7 px on the line y = 100 px
ExtendedTips == {Point(1000, 200), Point(993, 200)}

TipPoses == {FoldedTip} \cup ExtendedTips

\* one hand: index and middle take any pose, ring and pinky stay folded
HandFrame(tipIndex, tipMiddle) ==
    [i \in LandmarkIdx |->
        CASE i = 0 -> Wrist
          [] i \in {5, 9, 13, 17} -> McpPoint
          [] i = 8 -> tipIndex
          [] i = 12 -> tipMiddle
          [] OTHER -> FoldedTip]

NoHandResult == [landmarks |-> <<>>]

HandResult(hand) == [landmarks |-> <<hand>>]

DetectorResults ==
    {NoHandResult} \cup
    {HandResult(HandFrame(ti, tm)) : ti \in TipPoses, tm \in TipPoses}

\* fingertips 0 px, 2 px and 3 px along the same line: exactly 2 px, less
\* and more apart
JitterTips == {Point(1000, 200), Point(998, 200), Point(997, 200)}

\* frames of a hand that moves its index finger by these small steps
JitterResults ==
    {NoHandResult} \cup
    {HandResult(HandFrame(ti, FoldedTip)) : ti \in {FoldedTip} \cup JitterTips}

---------------------------------------------------------------------------
(* State after init() *)

NoResample == [path |-> <<>>, size |-> 0]

InitSession ==
    /\ strokes = <<>>
    /\ activePaths = <<>>
    /\ worldBodies = Walls
    /\ worldGravityY = 0
    /\ lastVideoTime = -1
    /\ strokeSize = 14
    /\ sizeStr = "M"
    /\ strokeColor = "#CC5DE8"
    /\ gravityEnabled = FALSE
    /\ wiggleEnabled = FALSE
    /\ rafPending = 1

\* the camera was granted and has data (loadeddata), or was denied
Init ==
    /\ InitSession
    /\ readyState \in {0, 4}
    /\ resampleIn = NoResample
    /\ resampleOut = <<>>

---------------------------------------------------------------------------
(* loop *)

Context ==
    [activePaths |-> activePaths, strokes |-> strokes,
     world |-> worldBodies, thrown |-> FALSE]

\* the timestamp test left out: every frame of a ready video is processed
ProcessesEveryFrame(t) == readyState >= 2

\* handLandmarker in a callback of loop: init() awaits its creation before
\* it requests the first callback, and nothing assigns it afterwards
handLandmarker == TRUE

\* the frame is a new video frame: lastVideoTime is updated, and the
\* detector, when there is one, is invoked and processHand runs
Processes(t) == readyState >= 2 /\ t # lastVideoTime

\* the state the frame leaves behind
AfterFrame(t, results, rejects) ==
    IF Processes(t) /\ handLandmarker
    THEN processHand(results, Context, rejects)
    ELSE Context

RECURSIVE PathPoints(_)
PathPoints(ap) == IF ap = <<>> THEN 0 ELSE Len(ap[1].path) + PathPoints(Tail(ap))

WithinBounds(ctx) ==
    /\ 2 * Len(ctx.strokes) + PathPoints(ctx.activePaths) <= MaxInk
    /\ \A i \in 1..Len(ctx.activePaths) : Len(ctx.activePaths[i].path) <= MaxPath

\* one animation callback: currentTime is read as t, the detector returns
\* results; the frame is drawn and the next callback is requested
Loop(t, results) ==
    /\ rafPending > 0
    /\ LET ctx == AfterFrame(t, results, FALSE)
       IN  /\ WithinBounds(ctx)
           /\ activePaths' = ctx.activePaths
           /\ strokes' = ctx.strokes
           /\ worldBodies' = ctx.world
    /\ lastVideoTime' = IF Processes(t) THEN t ELSE lastVideoTime
    /\ rafPending' = (rafPending - 1) + 1
    /\ UNCHANGED <<worldGravityY, readyState, strokeSize, sizeStr, strokeColor,
                   gravityEnabled, wiggleEnabled, resampleIn, resampleOut>>

\* the same callback when Body.create throws: the exception leaves
\* processHand and loop, past lastVideoTime = ... and requestAnimationFrame
LoopEngineRejects(t, results) ==
    /\ rafPending > 0
    /\ LET ctx == AfterFrame(t, results, TRUE)
       IN  /\ ctx.thrown
           /\ WithinBounds(ctx)
           /\ activePaths' = ctx.activePaths
           /\ strokes' = ctx.strokes
           /\ worldBodies' = ctx.world
    /\ rafPending' = rafPending - 1
    /\ UNCHANGED <<lastVideoTime, worldGravityY, readyState, strokeSize, sizeStr,
                   strokeColor, gravityEnabled, wiggleEnabled, resampleIn,
                   resampleOut>>

---------------------------------------------------------------------------
(* setupUI handlers *)

\* stroke-btn click: S -> M -> L -> S
StrokeBtnClick ==
    /\ sizeStr' = CASE sizeStr = "S" -> "M" [] sizeStr = "M" -> "L" [] OTHER -> "S"
    /\ strokeSize' = CASE sizeStr = "S" -> 14 [] sizeStr = "M" -> 22 [] OTHER -> 8
    /\ UNCHANGED <<strokes, activePaths, worldBodies, worldGravityY, lastVideoTime,
                   readyState, strokeColor, gravityEnabled, wiggleEnabled,
                   rafPending, resampleIn, resampleOut>>

\* the values the colour picker reports
PickerValues == {"#cc5de8", "#ffffff"}

\* String.prototype.toUpperCase on the picker's values
ToUpperCase(value) ==
    CASE value = "#cc5de8" -> "#CC5DE8" [] value = "#ffffff" -> "#FFFFFF"

\* the picker recolouring the strokes already drawn
ColorInputRecolours(value) ==
    /\ strokeColor' = ToUpperCase(value)
    /\ strokes' = [i \in 1..Len(strokes) |->
                     [strokes[i] EXCEPT !.color = ToUpperCase(value)]]
    /\ UNCHANGED <<activePaths, worldBodies, worldGravityY, lastVideoTime,
                   readyState, strokeSize, sizeStr, gravityEnabled, wiggleEnabled,
                   rafPending, resampleIn, resampleOut>>

\* color-picker input
ColorInput(value) ==
    /\ strokeColor' = ToUpperCase(value)
    /\ UNCHANGED <<strokes, activePaths, worldBodies, worldGravityY, lastVideoTime,
                   readyState, strokeSize, sizeStr, gravityEnabled, wiggleEnabled,
                   rafPending, resampleIn, resampleOut>>

BodySetStatic(body, isStatic) == [body EXCEPT !.isStatic = isStatic]

SleepingSet(body, isSleeping) == [body EXCEPT !.isSleeping = isSleeping]

BodySetVelocity(body, velocity) == [body EXCEPT !.velocity = velocity]

BodySetAngularVelocity(body, velocity) == [body EXCEPT !.angularVelocity = velocity]

\* the forEach body with the two resets of the "off" branch left out
GravityUpdateBodyNoReset(body, enabled) ==
    IF enabled
    THEN SleepingSet(BodySetStatic(body, FALSE), FALSE)
    ELSE BodySetStatic(body, TRUE)

\* the forEach body flipping each body instead of setting it from the toggle
GravityUpdateBodyFlip(body, enabled) ==
    LET b == BodySetStatic(body, ~body.isStatic)
    IN  IF ~b.isStatic
        THEN SleepingSet(b, FALSE)
        ELSE BodySetAngularVelocity(BodySetVelocity(b, Point(0, 0)), 0)

\* the body of strokes.forEach in the gravity-toggle handler
GravityUpdateBody(body, enabled) ==
    LET b == BodySetStatic(body, ~enabled)
    IN  IF enabled
        THEN SleepingSet(b, FALSE)
        ELSE BodySetAngularVelocity(BodySetVelocity(b, Point(0, 0)), 0)

\* the gravity-toggle handler on the state it touches
GravityHandler(checked, st) ==
    [gravityEnabled |-> checked,
     worldGravityY |-> IF checked THEN 1 ELSE 0,
     strokes |-> [i \in 1..Len(st.strokes) |->
                    [st.strokes[i] EXCEPT !.body = GravityUpdateBody(@, checked)]]]

GravityState ==
    [gravityEnabled |-> gravityEnabled, worldGravityY |-> worldGravityY,
     strokes |-> strokes]

\* gravity-toggle change
GravityChange(checked) ==
    /\ LET st == GravityHandler(checked, GravityState)
       IN  /\ gravityEnabled' = st.gravityEnabled
           /\ worldGravityY' = st.worldGravityY
           /\ strokes' = st.strokes
    /\ UNCHANGED <<activePaths, worldBodies, lastVideoTime, readyState, strokeSize,
                   sizeStr, strokeColor, wiggleEnabled, rafPending, resampleIn,
                   resampleOut>>

\* wiggle-toggle change
WiggleChange(checked) ==
    /\ wiggleEnabled' = checked
    /\ UNCHANGED <<strokes, activePaths, worldBodies, worldGravityY, lastVideoTime,
                   readyState, strokeSize, sizeStr, strokeColor, gravityEnabled,
                   rafPending, resampleIn, resampleOut>>

StrokeBodyIds(ss) == {ss[i].body.id : i \in 1..Len(ss)}

\* the clear handler without its World.remove: the bodies stay in the world
WorldRemoveNothing(world, ss) == world

\* strokes.forEach(s => World.remove(world, s.body))
WorldRemoveStrokes(world, ss) == world \ StrokeBodyIds(ss)

\* the clear handler without "activePaths = {}": the paths in progress stay
ClearClickKeepsPaths ==
    /\ worldBodies' = WorldRemoveStrokes(worldBodies, strokes)
    /\ strokes' = <<>>
    /\ UNCHANGED <<activePaths, worldGravityY, lastVideoTime, readyState, strokeSize,
                   sizeStr, strokeColor, gravityEnabled, wiggleEnabled, rafPending,
                   resampleIn, resampleOut>>

\* clear-btn click
ClearClick ==
    /\ worldBodies' = WorldRemoveStrokes(worldBodies, strokes)
    /\ strokes' = <<>>
    /\ activePaths' = <<>>
    /\ UNCHANGED <<worldGravityY, lastVideoTime, readyState, strokeSize, sizeStr,
                   strokeColor, gravityEnabled, wiggleEnabled, rafPending,
                   resampleIn, resampleOut>>

---------------------------------------------------------------------------
(* loop: settled stroke rendering *)

\* the polyline drawn for a stroke: the positions of body.parts[1..], the hull
\* parts[0] skipped
StrokePolyline(stroke) ==
    [i \in 1..(Len(stroke.body.parts) - 1) |->
        Point(stroke.body.parts[i + 1].x, stroke.body.parts[i + 1].y)]

---------------------------------------------------------------------------
(* Runner.run(runner, engine): one engine update *)

\* what one update can make of a body.  A static body does not move and may
\* fall asleep; a sleeping body stays asleep or is woken by a collision; an
\* awake dynamic body is moved by gravity and collisions, or comes to rest
\* and may then fall asleep.
EngineOutcomes(body) ==
    IF body.isStatic
    THEN {body, SleepingSet(body, TRUE)}
    ELSE IF body.isSleeping
    THEN {body, SleepingSet(body, FALSE)}
    ELSE {[body EXCEPT !.velocity = Point(0, 1), !.angularVelocity = 1],
          [body EXCEPT !.velocity = Point(0, 0), !.angularVelocity = 0]}
         \cup (IF body.velocity = Point(0, 0) /\ body.angularVelocity = 0
               THEN {SleepingSet(body, TRUE)} ELSE {})

PhysicsStep ==
    /\ strokes # <<>>
    /\ strokes' \in {ss \in [1..Len(strokes) -> UNION {
                               {[strokes[i] EXCEPT !.body = b] : b \in EngineOutcomes(strokes[i].body)}
                               : i \in 1..Len(strokes)}] :
                        \A i \in 1..Len(strokes) :
                            /\ ss[i].body.id = strokes[i].body.id
                            /\ ss[i].body \in EngineOutcomes(strokes[i].body)
                            /\ ss[i] = [strokes[i] EXCEPT !.body = ss[i].body]}
    /\ strokes' # strokes
    /\ UNCHANGED <<activePaths, worldBodies, worldGravityY, lastVideoTime, readyState,
                   strokeSize, sizeStr, strokeColor, gravityEnabled, wiggleEnabled,
                   rafPending, resampleIn, resampleOut>>

---------------------------------------------------------------------------
(* Stand-alone run of the resampling of finishStroke *)

\* raw x coordinates, in pixels, on the line y = 0
RawXs == {0, 2, 3, 7, 10}

RawPoints == {Point(x * UnitsPerPx, 0) : x \in RawXs}

\* stroke sizes: the three presets and the 10 of the worked example
RawSizes == {8, 10, 14, 22}

\* every path of 2..MaxRawLen points on the line
RawPaths == UNION {[1..n -> RawPoints] : n \in 2..MaxRawLen}

PxPoint(px, py) == Point(px * UnitsPerPx, py * UnitsPerPx)

\* paths off the axis: along the direction (3,4), and with a corner at (1,0)
\* before it
DiagonalPaths ==
    {<<PxPoint(0, 0), PxPoint(6, 8)>>,
     <<PxPoint(0, 0), PxPoint(3, 4), PxPoint(6, 8)>>,
     <<PxPoint(0, 0), PxPoint(1, 0), PxPoint(6, 8)>>}

\* a corner at (3,4), nearer than one spacing for the sizes 14 and 22,
\* before a point on the axis
CornerPath == <<PxPoint(0, 0), PxPoint(3, 4), PxPoint(10, 0)>>

ResampleInputs ==
    [path : RawPaths \cup DiagonalPaths, size : RawSizes]
    \cup {[path |-> CornerPath, size |-> size] : size \in {14, 22}}

InitResample ==
    /\ InitSession
    /\ readyState = 4
    /\ resampleIn \in ResampleInputs
    /\ resampleOut = <<>>

ResampleRun ==
    /\ resampleOut = <<>>
    /\ resampleOut' = Resample(resampleIn.path, resampleIn.size)
    /\ UNCHANGED <<strokes, activePaths, worldBodies, worldGravityY, lastVideoTime,
                   readyState, strokeSize, sizeStr, strokeColor, gravityEnabled,
                   wiggleEnabled, rafPending, resampleIn>>

---------------------------------------------------------------------------
(* Specifications *)

\* frames, the events that decide what a stroke's body is made of and how it
\* moves, and the runner's engine updates
Next ==
    \/ \E t \in VideoTimes, results \in DetectorResults : Loop(t, results)
    \/ StrokeBtnClick
    \/ \E checked \in BOOLEAN : GravityChange(checked)
    \/ ClearClick
    \/ PhysicsStep

Spec == Init /\ [][Next]_vars

\* every handler of the session, the runner, and frames of a hand that
\* draws with its index finger
NextSession ==
    \/ \E t \in VideoTimes, results \in JitterResults : Loop(t, results)
    \/ StrokeBtnClick
    \/ \E value \in PickerValues : ColorInput(value)
    \/ \E checked \in BOOLEAN : WiggleChange(checked)
    \/ \E checked \in BOOLEAN : GravityChange(checked)
    \/ ClearClick
    \/ PhysicsStep

SpecSession == Init /\ [][NextSession]_vars

\* the same program with an engine that may reject a body creation request
NextReject ==
    \/ Next
    \/ \E t \in VideoTimes, results \in DetectorResults : LoopEngineRejects(t, results)

SpecReject == Init /\ [][NextReject]_vars

SpecResample == InitResample /\ [][ResampleRun]_vars

\* frames of a hand that barely moves, with the size button and clear
NextJitter ==
    \/ \E t \in VideoTimes, results \in JitterResults : Loop(t, results)
    \/ StrokeBtnClick
    \/ ClearClick

SpecJitter == Init /\ [][NextJitter]_vars

---------------------------------------------------------------------------
(* Vocabulary of the properties *)

HasHand(results) == Len(results.landmarks) > 0

\* the finger is extended in the frame's hand
ExtendedIn(results, name) ==
    LET hand == results.landmarks[1]
    IN  4 * DistSq(hand[TipIdx(name)], hand[0]) > 9 * DistSq(hand[McpIdx(name)], hand[0])

\* the fingers whose path a processed frame finalizes
FinalizedNames(results) ==
    {name \in FingerNames :
        /\ HasPath(activePaths, name)
        /\ (HasHand(results) => ~ExtendedIn(results, name))}

ShortNames(results) ==
    {name \in FinalizedNames(results) : Len(PathOf(activePaths, name)) < 2}

LongNames(results) ==
    {name \in FinalizedNames(results) : Len(PathOf(activePaths, name)) >= 2}

\* an update: a frame in which processHand runs
Update(t, results) == Processes(t) /\ lastVideoTime' = t /\ Loop(t, results)

\* a timestamp the video has not been processed at
FreshTime == CHOOSE t \in VideoTimes : t # lastVideoTime

\* the enabling condition of Update(FreshTime, results): a callback is
\* pending, the video has data, and the frame stays within the bounds
CanUpdate(results) ==
    /\ rafPending > 0
    /\ readyState >= 2
    /\ WithinBounds(AfterFrame(FreshTime, results, FALSE))

---------------------------------------------------------------------------
(* C1 *)

\* C1: an update that finalizes a path of fewer than 2 points creates no
\* stroke for it: the registry and the world grow by exactly the finalized
\* paths of 2 or more points (by nothing at all when there is none), and the
\* short path is no longer active afterwards.
C1_ShortPathDiscarded ==
    [][\A t \in VideoTimes, results \in DetectorResults :
         (ShortNames(results) # {} /\ Update(t, results)) =>
            /\ \A name \in ShortNames(results) : ~HasPath(activePaths', name)
            /\ Len(strokes') = Len(strokes) + Cardinality(LongNames(results))
            /\ Cardinality(worldBodies') =
                 Cardinality(worldBodies) + Cardinality(LongNames(results))
            /\ LongNames(results) = {} =>
                 (strokes' = strokes /\ worldBodies' = worldBodies)]_vars

\* a one-point path is active beside a stroke of the registry, and frames
\* that finalize it (the finger folded, the hand lost) can be processed
C1_Witness ==
    /\ strokes # <<>>
    /\ HasPath(activePaths, "index")
    /\ Len(PathOf(activePaths, "index")) = 1
    /\ CanUpdate(NoHandResult)
    /\ CanUpdate(HandResult(HandFrame(FoldedTip, FoldedTip)))

---------------------------------------------------------------------------
(* C2 *)

\* the active paths of 2 or more points, in key order
LongPaths(ap) == SelectSeq(ap, LAMBDA e : Len(e.path) >= 2)

\* C2: an update with no detected hand finalizes every active path in that
\* update: the registry keeps its strokes and gains exactly one stroke per
\* active path of 2 or more points, and no active path remains.
C2_HandLostFinishesAll ==
    [][\A t \in VideoTimes :
         Update(t, NoHandResult) =>
            /\ activePaths' = <<>>
            /\ Len(strokes') = Len(strokes) + Len(LongPaths(activePaths))
            /\ SubSeq(strokes', 1, Len(strokes)) = strokes]_vars

\* two fingers are drawing, each with a path of 2 points, and the frame
\* without a hand can be processed
C2_Witness ==
    /\ Len(activePaths) = 2
    /\ Len(LongPaths(activePaths)) = 2
    /\ CanUpdate(NoHandResult)

---------------------------------------------------------------------------
(* C3 *)

IsPrefix(s, r) == Len(s) <= Len(r) /\ SubSeq(r, 1, Len(s)) = s

\* no finger has two entries among the active paths
OnePathPerFinger(ap) ==
    \A i, j \in 1..Len(ap) : ap[i].name = ap[j].name => i = j

\* C3: after every update with a hand, a tracked finger has an active path
\* exactly when it was extended in that frame, and only one; the path starts
\* with the frame's one point when the finger had none, and keeps its points
\* while the finger stays extended.
C3_PathIffExtended ==
    [][\A t \in VideoTimes, results \in DetectorResults \ {NoHandResult} :
         Update(t, results) =>
            /\ OnePathPerFinger(activePaths')
            /\ \A name \in FingerNames :
                 /\ HasPath(activePaths', name) <=> ExtendedIn(results, name)
                 /\ (ExtendedIn(results, name) /\ ~HasPath(activePaths, name)) =>
                      PathOf(activePaths', name) =
                         <<CanvasPoint(results.landmarks[1][TipIdx(name)])>>
                 /\ (ExtendedIn(results, name) /\ HasPath(activePaths, name)) =>
                      IsPrefix(PathOf(activePaths, name), PathOf(activePaths', name))]_vars

\* the index finger is drawing and the middle finger is not, and the frame
\* that folds the first and extends the second can be processed
C3_Witness ==
    /\ HasPath(activePaths, "index")
    /\ Len(PathOf(activePaths, "index")) = 2
    /\ ~HasPath(activePaths, "middle")
    /\ CanUpdate(HandResult(HandFrame(FoldedTip, Point(993, 200))))

---------------------------------------------------------------------------
(* C4 *)

Bodies(ss) == {ss[i].body : i \in 1..Len(ss)}

\* C4: after the gravity toggle is set to on, every stroke's body is dynamic
\* and awake; after it is set to off, every stroke's body is static with
\* linear velocity (0,0) and angular velocity 0.
C4_GravityTogglePostcondition ==
    [][/\ GravityChange(TRUE) =>
            \A b \in Bodies(strokes') : ~b.isStatic /\ ~b.isSleeping
       /\ GravityChange(FALSE) =>
            \A b \in Bodies(strokes') :
                /\ b.isStatic
                /\ b.velocity = Point(0, 0)
                /\ b.angularVelocity = 0]_vars

\* gravity is on, one stroke is falling and another has fallen asleep: the
\* toggle has a velocity to reset and a body to wake
C4_Witness ==
    /\ gravityEnabled
    /\ \E b \in Bodies(strokes) : ~b.isStatic /\ b.velocity # Point(0, 0)
    /\ \E b \in Bodies(strokes) : ~b.isStatic /\ b.isSleeping

---------------------------------------------------------------------------
(* C5 *)

\* C5: the gravity toggle is idempotent: invoked a second time with the same
\* boolean right after the first, it leaves every stroke (static or dynamic,
\* asleep or awake, both velocities), the gravity flag and the world gravity
\* as the first invocation left them.
C5_GravityToggleIdempotent ==
    \A checked \in BOOLEAN :
        GravityHandler(checked, GravityHandler(checked, GravityState)) =
            GravityHandler(checked, GravityState)

\* the toggle is where a first invocation with "off" left it, with strokes
\* in the registry, and where a first invocation with "on" would change two
\* bodies (one static and asleep, one static and awake)
C5_Witness ==
    /\ Len(strokes) = 2
    /\ GravityHandler(FALSE, GravityState) = GravityState
    /\ \E b \in Bodies(strokes) : b.isSleeping
    /\ GravityHandler(TRUE, GravityState) # GravityState

---------------------------------------------------------------------------
(* C6 *)

\* the stand-alone resampling run has produced its result
Resampled == resampleOut # <<>>

\* C6: for every path of 2 or more points, any two consecutive resampled
\* points are exactly one spacing (thickness * 0.4) apart, also when raw
\* points closer than the spacing were passed over in between.
C6_ConstantSpacing ==
    Resampled =>
        \A i \in 1..(Len(resampleOut) - 1) :
            DistSq(resampleOut[i], resampleOut[i + 1]) =
                Spacing(resampleIn.size) * Spacing(resampleIn.size)

\* a result of 2 or more points off the axis for a 3-point path with a
\* corner: the second raw point, nearer than one spacing to the first and
\* off the line to the third, was passed over
C6_Witness ==
    /\ Resampled
    /\ resampleIn.path = <<PxPoint(0, 0), PxPoint(1, 0), PxPoint(6, 8)>>
    /\ Len(resampleOut) >= 3
    /\ resampleOut[2].y # 0

---------------------------------------------------------------------------
(* C7 *)

\* the path [(0,0), (10,0)] of the worked example, in canvas units
ExamplePath == <<Point(0, 0), Point(10 * UnitsPerPx, 0)>>

\* C7: the first resampled point is the raw path's first point; the last
\* resampled point is less than one spacing from the raw path's final point,
\* which is itself the last resampled point only one spacing after the
\* resampled point before it; and [(0,0), (10,0)] with thickness 10 gives
\* exactly x = 0, 4, 8, that is 3 circle parts of radius 5.
C7_AnchorsAndRemainder ==
    Resampled =>
        LET path == resampleIn.path
            size == resampleIn.size
            n == Len(resampleOut)
        IN  /\ resampleOut[1] = path[1]
            /\ distance(resampleOut[n], Last(path)) < Spacing(size)
            /\ (n >= 2 /\ resampleOut[n] = Last(path)) =>
                 distance(resampleOut[n - 1], Last(path)) = Spacing(size)
            /\ (path = ExamplePath /\ size = 10) =>
                 /\ resampleOut = <<Point(0, 0), Point(4 * UnitsPerPx, 0),
                                    Point(8 * UnitsPerPx, 0)>>
                 /\ Len(CircleParts(resampleOut, size)) = 3
                 /\ \A k \in 1..3 :
                      CircleParts(resampleOut, size)[k].circleRadius = 5 * UnitsPerPx

\* the worked example has been resampled
C7_Witness ==
    /\ Resampled
    /\ resampleIn.path = ExamplePath
    /\ resampleIn.size = 10
    /\ Len(resampleOut) = 3

---------------------------------------------------------------------------
(* C8 *)

\* the paths of 2 or more points a processed frame finalizes, in the order
\* finishStroke is called on them: finger order with a hand, key order without
FinishedPaths(results) ==
    IF HasHand(results)
    THEN LET names == SelectSeq(Fingers, LAMBDA name : name \in LongNames(results))
         IN  [j \in 1..Len(names) |-> PathOf(activePaths, names[j])]
    ELSE LET entries == LongPaths(activePaths)
         IN  [j \in 1..Len(entries) |-> entries[j].path]

\* the circle parts of a stroke's body: all parts but the hull
CirclesOf(stroke) == SubSeq(stroke.body.parts, 2, Len(stroke.body.parts))

\* C8: the body of every stroke has one circle part of radius thickness/2
\* per resampled point of the path it was built from, in path order (the
\* polyline drawn for it is the resampled path), and keeps these parts for
\* as long as the stroke is in the registry.
C8_PartsAreResampledPoints ==
    [][/\ Len(strokes') >= Len(strokes) =>
            \A i \in 1..Len(strokes) :
                /\ Len(CirclesOf(strokes'[i])) = Len(CirclesOf(strokes[i]))
                /\ \A k \in 1..Len(CirclesOf(strokes[i])) :
                      CirclesOf(strokes'[i])[k].circleRadius =
                         CirclesOf(strokes[i])[k].circleRadius
       /\ \A t \in VideoTimes, results \in DetectorResults :
            Update(t, results) =>
                LET paths == FinishedPaths(results)
                IN  /\ Len(strokes') = Len(strokes) + Len(paths)
                    /\ \A j \in 1..Len(paths) :
                         LET stroke == strokes'[Len(strokes) + j]
                             resampled == Resample(paths[j], strokeSize)
                         IN  /\ Len(CirclesOf(stroke)) = Len(resampled)
                             /\ StrokePolyline(stroke) = resampled
                             /\ \A k \in 1..Len(resampled) :
                                  CirclesOf(stroke)[k].circleRadius =
                                     (stroke.thickness * UnitsPerPx) \div 2]_vars

\* the registry holds a stroke of three circles and a stroke of one
C8_Witness ==
    /\ \E i \in 1..Len(strokes) : Len(CirclesOf(strokes[i])) = 3
    /\ \E i \in 1..Len(strokes) : Len(CirclesOf(strokes[i])) = 1

---------------------------------------------------------------------------
(* C9 *)

\* the stroke bodies in the world are exactly the bodies of the registry,
\* one distinct body per stroke
RegistryMatchesWorld ==
    /\ worldBodies \ Walls = StrokeBodyIds(strokes)
    /\ Walls \cap StrokeBodyIds(strokes) = {}
    /\ Cardinality(StrokeBodyIds(strokes)) = Len(strokes)

\* C9: in every reachable state the stroke bodies in the world are exactly
\* the bodies the registry refers to, one distinct body per stroke; a stroke
\* leaves the registry only by the clear operation, after which the registry
\* is empty and no stroke body is left in the world.
C9_RegistryConsistency ==
    /\ []RegistryMatchesWorld
    /\ [][/\ ~(StrokeBodyIds(strokes) \subseteq StrokeBodyIds(strokes')) => ClearClick
          /\ ClearClick => (strokes' = <<>> /\ worldBodies' = Walls)]_vars

\* two strokes are in the registry and their two bodies in the world: the
\* state a clear empties
C9_Witness ==
    /\ Len(strokes) = 2
    /\ Cardinality(worldBodies \ Walls) = 2
    /\ activePaths = <<>>

---------------------------------------------------------------------------
(* C10 *)

\* C10: when the engine rejects a body creation request during a frame, the
\* frame still completes: the next animation callback is requested, the
\* registry has no stroke for the rejected path, and its path is consumed.
C10_RejectionAbsorbed ==
    [][\A t \in VideoTimes, results \in DetectorResults :
         LoopEngineRejects(t, results) =>
            /\ rafPending' = 1
            /\ strokes' = strokes
            /\ \A name \in LongNames(results) : ~HasPath(activePaths', name)]_vars

---------------------------------------------------------------------------
(* C13 *)

\* the square of the 2 px movement threshold, in canvas units
ThresholdSq == (2 * UnitsPerPx) * (2 * UnitsPerPx)

\* any two consecutive points of any active path are more than 2 px apart
ConsecutiveApart ==
    \A i \in 1..Len(activePaths) :
        \A k \in 1..(Len(activePaths[i].path) - 1) :
            DistSq(activePaths[i].path[k], activePaths[i].path[k + 1]) > ThresholdSq

\* C13: an update appends the fingertip's point to the finger's active path
\* exactly when it is strictly more than 2 px from the path's last point (a
\* point exactly 2 px away is not appended) and otherwise leaves the path as
\* it is; so in every reachable state any two consecutive points of any
\* active path are more than 2 px apart.
C13_JitterSuppression ==
    /\ []ConsecutiveApart
    /\ [][\A t \in VideoTimes, results \in JitterResults \ {NoHandResult} :
            Update(t, results) =>
               \A name \in FingerNames :
                  (ExtendedIn(results, name) /\ HasPath(activePaths, name)) =>
                     LET point == CanvasPoint(results.landmarks[1][TipIdx(name)])
                         currentPath == PathOf(activePaths, name)
                     IN  PathOf(activePaths', name) =
                            IF DistSq(Last(currentPath), point) > ThresholdSq
                            THEN Append(currentPath, point)
                            ELSE currentPath]_vars

\* the index path ends at 0 px after a stroke was drawn, and the frames with
\* the tip exactly 2 px away and 3 px away can be processed
C13_Witness ==
    /\ strokes # <<>>
    /\ HasPath(activePaths, "index")
    /\ PathOf(activePaths, "index") = <<CanvasPoint(Point(1000, 200))>>
    /\ CanUpdate(HandResult(HandFrame(Point(998, 200), FoldedTip)))
    /\ CanUpdate(HandResult(HandFrame(Point(997, 200), FoldedTip)))

---------------------------------------------------------------------------
(* C14 *)

\* C14: a frame whose video timestamp equals the one recorded at the last
\* processed frame leaves the active paths, the registry and the world as
\* they are; a frame of a ready video records its timestamp, so of
\* consecutive frames with one timestamp only the first can update.
C14_SameTimestampSkipped ==
    [][\A t \in VideoTimes, results \in JitterResults :
         /\ (t = lastVideoTime /\ Loop(t, results)) =>
               /\ activePaths' = activePaths
               /\ strokes' = strokes
               /\ worldBodies' = worldBodies
               /\ lastVideoTime' = lastVideoTime
         /\ (readyState >= 2 /\ lastVideoTime' # t) => ~Loop(t, results)]_vars

\* a frame was processed and left the index finger a one-point path; a
\* callback is pending, and the frame with the tip moved by 3 px would
\* change the path if it were processed at the recorded timestamp
C14_Witness ==
    /\ lastVideoTime \in VideoTimes
    /\ rafPending > 0
    /\ readyState >= 2
    /\ HasPath(activePaths, "index")
    /\ PathOf(activePaths, "index") = <<CanvasPoint(Point(1000, 200))>>
    /\ LET ctx == processHand(HandResult(HandFrame(Point(997, 200), FoldedTip)),
                              Context, FALSE)
       IN  ctx.activePaths # activePaths /\ WithinBounds(ctx)

---------------------------------------------------------------------------
(* C15 *)

\* C15: once the loop is started there is always exactly one pending
\* animation callback, never zero and never two, whatever events occur
\* between the frames.
C15_OnePendingCallback == rafPending = 1

---------------------------------------------------------------------------
(* C16 *)

\* colour, thickness and body reference of a stroke
Attributes(stroke) ==
    [color |-> stroke.color, thickness |-> stroke.thickness, body |-> stroke.body.id]

\* C16: a stroke of the registry keeps its colour, its thickness and its
\* body for as long as it is in the registry; the size button, the colour
\* picker and the wiggle toggle leave the registry as it is, a frame leaves
\* the strokes it finds as they are, and a stroke a frame adds has the
\* session's colour and thickness of that moment.
C16_StrokeAttributesFixed ==
    [][/\ Len(strokes') >= Len(strokes) =>
            \A i \in 1..Len(strokes) : Attributes(strokes'[i]) = Attributes(strokes[i])
       /\ (\/ StrokeBtnClick
           \/ \E value \in PickerValues : ColorInput(value)
           \/ \E checked \in BOOLEAN : WiggleChange(checked)) => strokes' = strokes
       /\ Len(strokes') > Len(strokes) =>
            /\ SubSeq(strokes', 1, Len(strokes)) = strokes
            /\ \A i \in (Len(strokes) + 1)..Len(strokes') :
                 /\ strokes'[i].color = strokeColor
                 /\ strokes'[i].thickness = strokeSize]_vars

\* a stroke drawn before the session's colour and size were changed is in
\* the registry beside one drawn after, each with its own colour and size
C16_Witness ==
    /\ Len(strokes) = 2
    /\ strokes[1].color # strokeColor
    /\ strokes[1].thickness # strokeSize
    /\ strokes[2].color = strokeColor
    /\ strokes[2].thickness = strokeSize

---------------------------------------------------------------------------
(* C17 *)

\* C17: in every reachable state the body of every stroke is static exactly
\* when gravity is disabled, and the world's gravity y is 1 when gravity is
\* enabled and 0 when it is not.
C17_StaticIffGravityOff ==
    /\ \A i \in 1..Len(strokes) : strokes[i].body.isStatic <=> ~gravityEnabled
    /\ worldGravityY = IF gravityEnabled THEN 1 ELSE 0

\* gravity is on with two strokes in the registry, the first already moved
\* by the engine and the second as it was created
C17_Witness ==
    /\ gravityEnabled
    /\ Len(strokes) = 2
    /\ strokes[1].body.velocity # Point(0, 0)
    /\ strokes[2].body.velocity = Point(0, 0)
    /\ ~strokes[2].body.isSleeping

---------------------------------------------------------------------------
(* C18 *)

\* C18: clear discards every path in progress without finalizing it: after
\* a clear no path is active and the registry is empty, so no point drawn
\* before it is left for a later stroke; the next update with a finger
\* extended starts that finger a path of only that frame's point and adds
\* no stroke.
C18_ClearDiscardsPaths ==
    [][/\ ClearClick => (activePaths' = <<>> /\ strokes' = <<>>)
       /\ \A t \in VideoTimes, results \in DetectorResults \ {NoHandResult} :
            (activePaths = <<>> /\ Update(t, results)) =>
               /\ strokes' = strokes
               /\ \A name \in FingerNames :
                    IF ExtendedIn(results, name)
                    THEN /\ HasPath(activePaths', name)
                         /\ PathOf(activePaths', name) =
                              <<CanvasPoint(results.landmarks[1][TipIdx(name)])>>
                    ELSE ~HasPath(activePaths', name)]_vars

\* a finger is drawing a path of 2 points beside a stroke: finalizing it
\* instead of discarding it would add a stroke
C18_Witness ==
    /\ strokes # <<>>
    /\ Len(activePaths) = 1
    /\ Len(activePaths[1].path) = 2
    /\ rafPending > 0
    /\ readyState >= 2

---------------------------------------------------------------------------
(* C19 *)

\* the length of the raw path along its segments
RECURSIVE PathLength(_)
PathLength(path) ==
    IF Len(path) < 2
    THEN 0
    ELSE distance(path[1], path[2]) + PathLength(Tail(path))

\* C19: an update adds exactly one stroke per finalized path of 2 or more
\* points, and the body of each has at least one circle part, the first of
\* them at the path's first point; it has exactly one when the whole path is
\* shorter than one spacing.
C19_AtLeastOnePart ==
    [][\A t \in VideoTimes, results \in DetectorResults :
         (LongNames(results) # {} /\ Update(t, results)) =>
            LET paths == FinishedPaths(results)
            IN  /\ Len(strokes') = Len(strokes) + Cardinality(LongNames(results))
                /\ Len(paths) = Cardinality(LongNames(results))
                /\ \A j \in 1..Len(paths) :
                     LET circles == CirclesOf(strokes'[Len(strokes) + j])
                     IN  /\ Len(circles) >= 1
                         /\ Point(circles[1].x, circles[1].y) = paths[j][1]
                         /\ PathLength(paths[j]) < Spacing(strokeSize) =>
                              Len(circles) = 1]_vars

\* beside a stroke of a single circle, drawn with the large size, a path of
\* 2 points shorter than one spacing is active and can be finalized
C19_Witness ==
    /\ \E i \in 1..Len(strokes) :
          strokes[i].thickness = 22 /\ Len(CirclesOf(strokes[i])) = 1
    /\ strokeSize = 22
    /\ Len(LongPaths(activePaths)) = 1
    /\ PathLength(LongPaths(activePaths)[1].path) < Spacing(strokeSize)
    /\ CanUpdate(NoHandResult)

====
